---- MODULE Spec2Model ----
(***************************************************************************)
(* GLB preview components of kilegram-battle-royale-arena:                 *)
(*   CharacterModel3D / WeaponModel3D, each in two variants                *)
(*   ("safe material replacement" and "auto-centering").                   *)
(*                                                                         *)
(* Numbers: roughness / metalness / opacity are kept in tenths (5 is 0.5); *)
(* frame deltas are milliseconds and yaw is kept in 1e-4 rad, so a rate of *)
(* 0.4 rad/s is 4 per millisecond.                                         *)
(***************************************************************************)
EXTENDS Integers, Sequences, FiniteSets, TLC

VARIABLES
  variant,     \* which of the four component modules the preview is an instance of
  cache,       \* useGLTF's cache: path -> [status, asset]
  loadStarts,  \* path -> number of times the loader was started for it
  mounted,     \* "no" | "yes" | "gone"
  id,          \* the id prop (character.id / weaponId)
  rotate,      \* the rotate prop
  loadError,   \* useState(false) of the safe variants
  hasError,    \* GLBErrorBoundary.state.hasError
  glb,         \* what the GLB component subtree is: "none" | "suspended" | "null" | "shown"
  inst,        \* the cloned scene handed to <primitive>: a sequence of nodes
  nextId,      \* next fresh object identity (new THREE.MeshStandardMaterial)
  yaw,         \* groupRef.current.rotation.y
  elapsed,     \* sum of all frame deltas since mount
  rotT,        \* sum of the frame deltas of frames run with rotate enabled
  updates,     \* number of prop updates so far
  calls,       \* the useGLTF invocations of this preview: <<id, path>> each
  escaped,     \* an exception left the component's wrappers
  renderThrew, \* an exception was thrown while rendering the loaded subtree
  pendingAtMount, \* the load of the id's path was outstanding when the preview mounted
  sanVariant,  \* sanitize check: the variant whose rewrite is applied
  sanScene,    \* sanitize check: the cached asset's scene
  sanOut,      \* sanitize check: the clones made from sanScene, in order
  sanNext      \* sanitize check: next fresh object identity

vars == <<variant, cache, loadStarts, mounted, id, rotate, loadError, hasError, glb,
          inst, nextId, yaw, elapsed, rotT, updates, calls, escaped, renderThrew,
          pendingAtMount, sanVariant, sanScene, sanOut, sanNext>>

previewVars == <<variant, cache, loadStarts, mounted, id, rotate, loadError, hasError,
                 glb, inst, nextId, yaw, elapsed, rotT, updates, calls, escaped,
                 renderThrew, pendingAtMount>>

sanVars == <<sanVariant, sanScene, sanOut, sanNext>>

----------------------------------------------------------------------------
(* Bounds *)

MaxElapsed == 3
MaxUpdates == 1
MaxNodes == 2
MaxClones == 2

----------------------------------------------------------------------------
(* The four component modules *)

Variants == {"characterSafe", "characterAuto", "weaponAuto", "weaponSafe"}

IsSafe(v) == v \in {"characterSafe", "weaponSafe"}

IsCharacter(v) == v \in {"characterSafe", "characterAuto"}

CHARACTER_GLB_MAP ==
  ("ghost_riley" :> "/Models/Characters/snake_eyes__fortnite_item_shop_skin.glb") @@
  ("nova_prime" :> "/Models/Characters/fortnite_oblivion_skin.glb") @@
  ("viper_snake" :> "/Models/Characters/torin__fortnite_chapter_2_season_8_bp_skin.glb") @@
  ("shadow_exe" :> "/Models/Characters/the_omega_tier_100_skin_fortnite_3d_model.glb") @@
  ("midas_gold" :> "/Models/Characters/midas__fortnite_100_tier_s12_bp_skin.glb") @@
  ("marigold" :> "/Models/Characters/marigold_fortnite_skin__female_midas.glb") @@
  ("glow_phantom" :> "/Models/Characters/glow__fortnite_outfit.glb")

WEAPON_GLB_MAP ==
  ("k416" :> "/Models/weapons/rifle__m4a1-s_weapon_model_cs2.glb") @@
  ("ak_death" :> "/Models/weapons/ak-47disassembly_of_weapons.glb") @@
  ("awm_x" :> "/Models/weapons/rifle__awp_weapon_model_cs2.glb") @@
  ("vector_neon" :> "/Models/weapons/animated_pp-19-01.glb") @@
  ("s12_breacher" :> "/Models/weapons/shotgun_mr-133_animated.glb") @@
  ("desert_eagle" :> "/Models/weapons/pistol__desert_eagle_weapon_model_cs2.glb") @@
  ("glock_17" :> "/Models/weapons/glock_17_-_fps_weapon_animations_pack_v.1.glb") @@
  ("m4a4_thunder" :> "/Models/weapons/rifle__m4a4_weapon_model_cs2.glb") @@
  ("sniper_elite" :> "/Models/weapons/sniper.glb") @@
  ("usp_shadow" :> "/Models/weapons/pistol__usp-s_weapon_model_cs2.glb") @@
  ("awp_black" :> "/Models/weapons/rifle__awp_black_version_weapon_model_cs2.glb") @@
  ("cz100" :> "/Models/weapons/cz100__realtime_weapon.glb") @@
  ("cheytac" :> "/Models/weapons/cheytac_m300_mcmillan_stock.glb") @@
  ("t77" :> "/Models/weapons/t77_handgun.glb") @@
  ("colt_m1911" :> "/Models/weapons/colt_pistol_m1911a1_game_asset.glb")

GLBMap(v) == IF IsCharacter(v) THEN CHARACTER_GLB_MAP ELSE WEAPON_GLB_MAP

\* The table is an object literal: besides its own keys it answers `in` and
\* `[]` for the property names it inherits from Object.prototype.
ObjectPrototypeKeys == {"constructor", "toString", "valueOf", "hasOwnProperty", "__proto__"}

\* What TABLE[id] is for an inherited name: a function or an object, never a path string.
InheritedValue == "[inherited Object.prototype member]"

\* `id in TABLE`
HasGLB(v, i) == i \in DOMAIN GLBMap(v) \/ i \in ObjectPrototypeKeys

\* `TABLE[id]`
PathOf(v, i) ==
  IF i \in DOMAIN GLBMap(v) THEN GLBMap(v)[i]
  ELSE IF i \in ObjectPrototypeKeys THEN InheritedValue
  ELSE "undefined"

MappedPaths(v) == {GLBMap(v)[i] : i \in DOMAIN GLBMap(v)}

----------------------------------------------------------------------------
(* Material descriptors and scene nodes *)

\* A numeric field read off an untyped material.
Num(n) == [t |-> "num", v |-> n]

Undef == [t |-> "undef", v |-> 0]

NaN == [t |-> "nan", v |-> 0]

\* `x != null`, `x ?? d`
NotNullish(x) == x.t # "undef"

DefaultRoughness == 5

DefaultMetalness == 3

DefaultOpacity == 10

\* A material value as the code sees it (`any`):
\*   kind "null"   : null / undefined
\*   kind "obj"    : an object whose fields can be read
\*   kind "throws" : an object whose field reads throw
\* id is the object's identity (0 for null).
Material(k, ty, col, mp, nmap, rough, metal, transp, opac) ==
  [kind |-> k, id |-> 0, type |-> ty, color |-> col, map |-> mp, normalMap |-> nmap,
   roughness |-> rough, metalness |-> metal, transparent |-> transp, opacity |-> opac]

NullMaterial == Material("null", "none", "undef", "none", "none", Undef, Undef, FALSE, Undef)

ThrowingMaterial == Material("throws", "unknown", "undef", "none", "none", Undef, Undef, FALSE, Undef)

\* new THREE.MeshStandardMaterial() with no parameters: the library's defaults
\* (white, roughness 1, metalness 0, opaque).
MeshStandardMaterial(newId) ==
  [kind |-> "obj", id |-> newId, type |-> "MeshStandardMaterial", color |-> "white",
   map |-> "none", normalMap |-> "none", roughness |-> Num(10), metalness |-> Num(0),
   transparent |-> FALSE, opacity |-> Num(10)]

\* new THREE.MeshStandardMaterial({ color: 0x888888, side }) 
GrayMaterial(newId) == [MeshStandardMaterial(newId) EXCEPT !.color = "gray"]

\* the catch of replaceMat: gray with roughness 0.5 and metalness 0.3
CatchMaterial(newId) ==
  [GrayMaterial(newId) EXCEPT !.roughness = Num(DefaultRoughness),
                              !.metalness = Num(DefaultMetalness)]

\* A node of a scene, in traversal order.  isArray: material is an array (mats
\* are its elements); otherwise mats holds the one material value.
\* getterThrows: reading child.material throws.
Node(mesh, arr, ms) == [isMesh |-> mesh, isArray |-> arr, mats |-> ms, getterThrows |-> FALSE]

\* `child.material` is truthy (an array, even an empty one, is)
HasMaterial(node) == node.isArray \/ node.mats[1].kind # "null"

\* replaceMat of the safe variants
replaceMat(mat, newId) ==
  IF mat.kind = "throws" \/ (mat.kind = "obj" /\ mat.color = "string")
  THEN CatchMaterial(newId)
  ELSE LET has == mat.kind = "obj" IN
       [kind |-> "obj", id |-> newId, type |-> "MeshStandardMaterial",
        color |-> IF has /\ mat.color = "Color" THEN "Color" ELSE "gray",
        map |-> IF has THEN mat.map ELSE "none",
        normalMap |-> IF has THEN mat.normalMap ELSE "none",
        roughness |-> IF has /\ NotNullish(mat.roughness) THEN mat.roughness
                      ELSE Num(DefaultRoughness),
        metalness |-> IF has /\ NotNullish(mat.metalness) THEN mat.metalness
                      ELSE Num(DefaultMetalness),
        transparent |-> has /\ mat.transparent,
        opacity |-> IF has /\ NotNullish(mat.opacity) THEN mat.opacity
                    ELSE Num(DefaultOpacity)]

\* The traverse callback of sanitizeMaterials for one node; base + j is the
\* identity of the j-th material it constructs.
SanitizeNodeSafe(node, base) ==
  IF ~node.isMesh THEN node
  ELSE IF node.getterThrows
  THEN [node EXCEPT !.isArray = FALSE, !.mats = <<GrayMaterial(base + 1)>>,
                    !.getterThrows = FALSE]
  ELSE IF node.isArray
  THEN [node EXCEPT !.mats = [j \in 1..Len(node.mats) |-> replaceMat(node.mats[j], base + j)]]
  ELSE IF HasMaterial(node)
  THEN [node EXCEPT !.mats = <<replaceMat(node.mats[1], base + 1)>>]
  ELSE [node EXCEPT !.mats = <<GrayMaterial(base + 1)>>]

\* The material the auto-centering variants build from oldMat = child.material.
\* An array has none of the fields read, so every default applies.
AutoMaterial(node, newId) ==
  LET has == ~node.isArray
      old == node.mats[1] IN
  [kind |-> "obj", id |-> newId, type |-> "MeshStandardMaterial",
   color |-> IF has /\ old.color = "Color" THEN "Color"
             ELSE IF has /\ old.color = "string" THEN "style"
             ELSE "gray",
   map |-> IF has THEN old.map ELSE "none",
   normalMap |-> IF has THEN old.normalMap ELSE "none",
   roughness |-> IF has /\ NotNullish(old.roughness) THEN old.roughness
                 ELSE Num(DefaultRoughness),
   metalness |-> IF has /\ NotNullish(old.metalness) THEN old.metalness
                 ELSE Num(DefaultMetalness),
   transparent |-> FALSE,
   opacity |-> Num(10)]

\* Whether the auto-centering traverse callback throws on this node.
AutoThrows(node) ==
  node.isMesh /\ (node.getterThrows \/ (~node.isArray /\ node.mats[1].kind = "throws"))

SanitizeNodeAuto(node, base) ==
  IF node.isMesh /\ HasMaterial(node)
  THEN [node EXCEPT !.isArray = FALSE, !.mats = <<AutoMaterial(node, base + 1)>>]
  ELSE node

\* Identities one node's rewrite may use: more than any material array is long.
IdsPerNode == 4

\* obj.traverse(callback): the nodes in order; an exception leaves the nodes
\* after it untouched.  [threw, nodes]
Traverse(v, nodes, firstId) ==
  LET throwsAt == {i \in 1..Len(nodes) : ~IsSafe(v) /\ AutoThrows(nodes[i])}
      stop == IF throwsAt = {} THEN Len(nodes) + 1
              ELSE CHOOSE i \in throwsAt : \A k \in throwsAt : i <= k
      rewrite(i) == IF IsSafe(v) THEN SanitizeNodeSafe(nodes[i], firstId + (i - 1) * IdsPerNode)
                    ELSE SanitizeNodeAuto(nodes[i], firstId + (i - 1) * IdsPerNode) IN
  [threw |-> throwsAt # {},
   nodes |-> [i \in 1..Len(nodes) |-> IF i < stop THEN rewrite(i) ELSE nodes[i]]]

\* scene.clone() / SkeletonUtils.clone(scene): new nodes, the material
\* objects shared with the source; throws on a file without a scene.
CloneScene(asset) == [threw |-> asset.corrupt, nodes |-> asset.nodes]

\* The body of the useMemo callback: clone, then the material rewrite.
\* [threw, nodes, next]
CloneAndSanitize(v, asset, firstId) ==
  LET c == CloneScene(asset) IN
  IF c.threw THEN [threw |-> TRUE, nodes |-> <<>>, next |-> firstId]
  ELSE LET t == Traverse(v, c.nodes, firstId) IN
       [threw |-> t.threw, nodes |-> t.nodes,
        next |-> firstId + Len(c.nodes) * IdsPerNode]

\* The material objects a scene refers to.
MaterialIds(nodes) ==
  UNION {{nodes[i].mats[j].id : j \in 1..Len(nodes[i].mats)} : i \in 1..Len(nodes)} \ {0}

----------------------------------------------------------------------------
(* Loaded assets: what a GLB file can parse to *)

PlainMaterial ==
  Material("obj", "MeshStandardMaterial", "Color", "tex", "none", Num(7), Num(2), FALSE, Num(10))

OutOfRangeMaterial ==
  Material("obj", "MeshPhysicalMaterial", "Color", "none", "tex", Num(50), Num(-10), TRUE, Num(20))

NonNumericMaterial ==
  Material("obj", "ShaderMaterial", "undef", "none", "none", NaN, NaN, FALSE, NaN)

MissingFieldsMaterial ==
  Material("obj", "MeshBasicMaterial", "undef", "none", "none", Undef, Undef, FALSE, Undef)

StringColorMaterial ==
  Material("obj", "MeshStandardMaterial", "string", "none", "none", Num(5), Num(3), FALSE, Num(10))

PointsMaterial ==
  Material("obj", "PointsMaterial", "Color", "none", "none", Undef, Undef, FALSE, Num(10))

SourceMaterials ==
  {PlainMaterial, OutOfRangeMaterial, NonNumericMaterial, MissingFieldsMaterial,
   StringColorMaterial, ThrowingMaterial, NullMaterial}

SourceArrays ==
  {<<>>, <<PlainMaterial>>, <<PlainMaterial, NullMaterial>>,
   <<ThrowingMaterial, OutOfRangeMaterial>>, <<NullMaterial, PlainMaterial, StringColorMaterial>>}

\* Group / Bone / Object3D: no material.  Points / Line: a material, isMesh unset.
GroupNode == Node(FALSE, FALSE, <<NullMaterial>>)

PointsNode == Node(FALSE, FALSE, <<PointsMaterial>>)

SourceNodes ==
  {GroupNode, PointsNode}
  \cup {Node(TRUE, FALSE, <<m>>) : m \in SourceMaterials}
  \cup {Node(TRUE, TRUE, a) : a \in SourceArrays}
  \cup {[Node(TRUE, FALSE, <<PlainMaterial>>) EXCEPT !.getterThrows = TRUE]}

\* The parser gives every material object of a file its own identity.
WithIds(nodes) ==
  [i \in 1..Len(nodes) |->
     [nodes[i] EXCEPT !.mats =
        [j \in 1..Len(nodes[i].mats) |->
           IF nodes[i].mats[j].kind = "null" THEN nodes[i].mats[j]
           ELSE [nodes[i].mats[j] EXCEPT !.id = (i - 1) * IdsPerNode + j]]]]

Asset(c, nodes) == [corrupt |-> c, nodes |-> WithIds(nodes)]

\* A file without a scene: gltf.scene is undefined and clone throws.
NoSceneAsset == Asset(TRUE, <<>>)

ScenesOfLength(n) == [1..n -> SourceNodes]

SanAssets ==
  {NoSceneAsset} \cup {Asset(FALSE, ns) : ns \in UNION {ScenesOfLength(n) : n \in 1..MaxNodes}}

\* The first identity free after a file's own materials.
FirstFreshId == MaxNodes * IdsPerNode + 1

\* The assets the preview's loads resolve to.
LoadedAssets ==
  [good |-> Asset(FALSE, <<GroupNode, Node(TRUE, FALSE, <<PlainMaterial>>)>>),
   noScene |-> NoSceneAsset,
   throwing |-> Asset(FALSE, <<Node(TRUE, FALSE, <<PlainMaterial>>),
                               Node(TRUE, FALSE, <<ThrowingMaterial>>)>>),
   points |-> Asset(FALSE, <<Node(TRUE, FALSE, <<NonNumericMaterial>>), PointsNode>>)]

AssetNames == DOMAIN LoadedAssets

----------------------------------------------------------------------------
(* useGLTF and the component tree *)

\* The ids the preview is given: two table entries, an id that is no property
\* of the table at all, and a name every object inherits.
InputIds(v) ==
  IF IsCharacter(v) THEN {"ghost_riley", "nova_prime", "unlisted_id", "constructor"}
  ELSE {"k416", "ak_death", "unlisted_id", "constructor"}

InputPaths(v) == {PathOf(v, i) : i \in {j \in InputIds(v) : HasGLB(v, j)}}

\* Object.values(TABLE).forEach(path => useGLTF.preload(path)): at module load
\* every configured path has a load outstanding.  The cache is kept for the
\* paths the preview can ask for; the other entries are never read.
PreloadedCache(v) ==
  [path \in InputPaths(v) |->
     [status |-> IF path \in MappedPaths(v) THEN "pending" ELSE "absent", asset |-> "none"]]

\* useGLTF(path) against the cache: the value, or what it throws.
UseGLTF(c, path) ==
  CASE c[path].status = "resolved" -> "value"
    [] c[path].status = "rejected" -> "error"
    [] OTHER -> "promise"

\* The cache after useGLTF(path): a path never asked for gets its load started.
CacheAfterUse(c, path) ==
  IF c[path].status = "absent" THEN [c EXCEPT ![path].status = "pending"] ELSE c

\* What the GLB component (GLBCharacter / GLBWeapon) does with useGLTF's
\* outcome and the outcome of its useMemo callback.
GLBComponent(v, out, memoThrew) ==
  IF IsSafe(v)
  THEN IF out # "value" THEN "onError"
       ELSE IF memoThrew THEN "null"
       ELSE "primitive"
  ELSE IF out = "promise" THEN "throwPromise"
       ELSE IF out = "error" \/ memoThrew THEN "throwError"
       ELSE "primitive"

\* The elements around the GLB component, innermost first.
Wrappers == <<"Suspense", "GLBErrorBoundary">>

\* A boundary without getDerivedStateFromError catches nothing.
CatchesWithoutBoundary(wrapper, thrown) == wrapper = "Suspense" /\ thrown = "throwPromise"

Catches(wrapper, thrown) ==
  \/ wrapper = "Suspense" /\ thrown = "throwPromise"
  \/ wrapper = "GLBErrorBoundary" /\ thrown = "throwError"

\* Where something thrown below the wrappers lands.
Landing(thrown) ==
  IF \E k \in 1..Len(Wrappers) : Catches(Wrappers[k], thrown)
  THEN Wrappers[CHOOSE k \in 1..Len(Wrappers) :
                  /\ Catches(Wrappers[k], thrown)
                  /\ \A m \in 1..Len(Wrappers) : Catches(Wrappers[m], thrown) => k <= m]
  ELSE "escaped"

\* A render that forgets the load-error flag.
FallbackBranchWithoutFlag(v, le, i) == ~HasGLB(v, i)

\* The first branch of the safe variants' render / the `: fallback` arm of the
\* auto-centering variants' ternary.
FallbackBranch(v, le, i) == (IsSafe(v) /\ le) \/ ~HasGLB(v, i)

\* One render of CharacterModel3D / WeaponModel3D with id prop i, from
\* component state (le, he, g, ins); keep: the GLB component stays mounted
\* with the id it had, so its useMemo result is reused.
Render(v, i, c, le, he, g, ins, nid, keep) ==
  LET idle == [loadError |-> le, hasError |-> FALSE, glb |-> "none", inst |-> <<>>,
               nextId |-> nid, escaped |-> FALSE, called |-> FALSE] IN
  IF FallbackBranch(v, le, i) THEN idle
  ELSE IF he THEN [idle EXCEPT !.hasError = TRUE]
  ELSE
    LET path == PathOf(v, i)
        out == UseGLTF(c, path)
        reuse == keep /\ g \in {"shown", "null"}
        memo == IF out # "value" \/ reuse
                THEN [threw |-> FALSE, nodes |-> ins, next |-> nid]
                ELSE CloneAndSanitize(v, LoadedAssets[c[path].asset], nid)
        body == IF out = "value" /\ reuse
                THEN (IF g = "null" THEN "null" ELSE "primitive")
                ELSE GLBComponent(v, out, memo.threw)
        did == [idle EXCEPT !.called = TRUE] IN
    CASE body = "onError" -> [did EXCEPT !.loadError = TRUE]
      [] body = "null" -> [did EXCEPT !.glb = "null", !.nextId = memo.next]
      [] body = "primitive" ->
           [did EXCEPT !.glb = "shown", !.inst = memo.nodes, !.nextId = memo.next]
      [] OTHER ->
           LET at == Landing(body) IN
           CASE at = "Suspense" -> [did EXCEPT !.glb = "suspended"]
             [] at = "GLBErrorBoundary" -> [did EXCEPT !.hasError = TRUE, !.nextId = memo.next]
             [] OTHER -> [did EXCEPT !.escaped = TRUE]

\* GLBErrorBoundary.render / Suspense / the GLB component's return value:
\* what is on screen for the preview.
Display ==
  IF mounted # "yes" THEN "unmounted"
  ELSE IF FallbackBranch(variant, loadError, id) THEN "fallback"
  ELSE IF hasError THEN "fallback"
  ELSE IF glb = "suspended" THEN "fallback"
  ELSE IF glb = "shown" THEN "instance"
  ELSE "nothing"

\* delta * 0.4 / delta * 0.5
CharacterRate == 4

WeaponRate == 5

Rate(v) == IF IsCharacter(v) THEN CharacterRate ELSE WeaponRate

\* A fixed step per frame, whatever the frame's length.
FrameYawPerFrame(v, rot, y, delta) == IF rot THEN y + Rate(v) ELSE y

\* The useFrame callback.
FrameYaw(v, rot, y, delta) == IF rot THEN y + delta * Rate(v) ELSE y

FrameDeltas == {1, 2}

----------------------------------------------------------------------------
(* The preview's life *)

Init ==
  /\ variant \in Variants
  /\ cache = PreloadedCache(variant)
  /\ loadStarts = [path \in DOMAIN cache |-> IF cache[path].status = "pending" THEN 1 ELSE 0]
  /\ mounted = "no"
  /\ id = "unlisted_id"
  /\ rotate = TRUE
  /\ loadError = FALSE
  /\ hasError = FALSE
  /\ glb = "none"
  /\ inst = <<>>
  /\ nextId = FirstFreshId
  /\ yaw = 0
  /\ elapsed = 0
  /\ rotT = 0
  /\ updates = 0
  /\ calls = <<>>
  /\ escaped = FALSE
  /\ renderThrew = FALSE
  /\ pendingAtMount = FALSE
  /\ sanVariant = "characterSafe"
  /\ sanScene = NoSceneAsset
  /\ sanOut = <<>>
  /\ sanNext = FirstFreshId

\* The effects of one render on the component state and the cache.
Commit(i, r) ==
  /\ loadError' = r.loadError
  /\ hasError' = r.hasError
  /\ glb' = r.glb
  /\ inst' = r.inst
  /\ nextId' = r.nextId
  /\ escaped' = (escaped \/ r.escaped)
  /\ calls' = IF r.called THEN Append(calls, <<i, PathOf(variant, i)>>) ELSE calls
  /\ cache' = IF r.called THEN CacheAfterUse(cache, PathOf(variant, i)) ELSE cache
  /\ loadStarts' = IF r.called /\ cache[PathOf(variant, i)].status = "absent"
                   THEN [loadStarts EXCEPT ![PathOf(variant, i)] = @ + 1]
                   ELSE loadStarts

\* The preview mounts with props (i, rot).
Mount(i, rot) ==
  /\ mounted = "no"
  /\ mounted' = "yes"
  /\ id' = i
  /\ rotate' = rot
  /\ pendingAtMount' = (HasGLB(variant, i) /\ cache[PathOf(variant, i)].status \in {"absent", "pending"})
  /\ Commit(i, Render(variant, i, cache, FALSE, FALSE, "none", <<>>, nextId, FALSE))
  /\ UNCHANGED <<variant, yaw, elapsed, rotT, updates, renderThrew, sanVars>>

\* An outstanding load settles: it resolves to a parsed asset or rejects.  A
\* table value that is no string cannot be fetched: that load only rejects.
LoadSettles(path, outcome) ==
  /\ cache[path].status = "pending"
  /\ outcome \in AssetNames => path # InheritedValue
  /\ cache' = [cache EXCEPT ![path] =
                 IF outcome = "rejected" THEN [status |-> "rejected", asset |-> "none"]
                 ELSE [status |-> "resolved", asset |-> outcome]]
  /\ UNCHANGED <<variant, loadStarts, mounted, id, rotate, loadError, hasError, glb, inst,
                 nextId, yaw, elapsed, rotT, updates, calls, escaped, renderThrew,
                 pendingAtMount, sanVars>>

\* The suspended GLB component is rendered again once its load has settled.
Retry ==
  /\ mounted = "yes"
  /\ glb = "suspended"
  /\ cache[PathOf(variant, id)].status # "pending"
  /\ Commit(id, Render(variant, id, cache, loadError, hasError, glb, inst, nextId, TRUE))
  /\ UNCHANGED <<variant, mounted, id, rotate, yaw, elapsed, rotT, updates, renderThrew,
                 pendingAtMount, sanVars>>

\* An exception is thrown while the loaded subtree (<Center><primitive/>) renders.
RenderThrows ==
  /\ mounted = "yes"
  /\ Display = "instance"
  /\ renderThrew' = TRUE
  /\ LET at == Landing("throwError") IN
       /\ hasError' = (at = "GLBErrorBoundary")
       /\ escaped' = (escaped \/ at = "escaped")
  /\ glb' = "none"
  /\ inst' = <<>>
  /\ UNCHANGED <<variant, cache, loadStarts, mounted, id, rotate, loadError, nextId, yaw,
                 elapsed, rotT, updates, calls, pendingAtMount, sanVars>>

\* The parent passes new props.
SetProps(i, rot) ==
  /\ mounted = "yes"
  /\ updates < MaxUpdates
  /\ <<i, rot>> # <<id, rotate>>
  /\ updates' = updates + 1
  /\ id' = i
  /\ rotate' = rot
  /\ Commit(i, Render(variant, i, cache, loadError, hasError, glb, inst, nextId, i = id))
  /\ UNCHANGED <<variant, mounted, yaw, elapsed, rotT, renderThrew, pendingAtMount, sanVars>>

\* One rendered frame.
Frame(delta) ==
  /\ mounted = "yes"
  /\ elapsed + delta <= MaxElapsed
  /\ elapsed' = elapsed + delta
  /\ rotT' = IF rotate THEN rotT + delta ELSE rotT
  /\ yaw' = FrameYaw(variant, rotate, yaw, delta)
  /\ UNCHANGED <<variant, cache, loadStarts, mounted, id, rotate, loadError, hasError, glb,
                 inst, nextId, updates, calls, escaped, renderThrew, pendingAtMount, sanVars>>

\* The preview unmounts; its component state, its group and its clone are gone.
Unmount ==
  /\ mounted = "yes"
  /\ mounted' = "gone"
  /\ id' = "unlisted_id"
  /\ rotate' = TRUE
  /\ loadError' = FALSE
  /\ hasError' = FALSE
  /\ glb' = "none"
  /\ inst' = <<>>
  /\ nextId' = FirstFreshId
  /\ yaw' = 0
  /\ elapsed' = 0
  /\ rotT' = 0
  /\ updates' = 0
  /\ calls' = <<>>
  /\ renderThrew' = FALSE
  /\ pendingAtMount' = FALSE
  /\ UNCHANGED <<variant, cache, loadStarts, escaped, sanVars>>

Next ==
  \/ \E i \in InputIds(variant), rot \in BOOLEAN : Mount(i, rot)
  \/ \E path \in InputPaths(variant), outcome \in AssetNames \cup {"rejected"} :
       LoadSettles(path, outcome)
  \/ Retry
  \/ RenderThrows
  \/ \E i \in InputIds(variant), rot \in BOOLEAN : SetProps(i, rot)
  \/ \E delta \in FrameDeltas : Frame(delta)
  \/ Unmount

Spec == Init /\ [][Next]_vars

\* React renders a suspended component again after its promise settles.
FairSpec == Spec /\ WF_vars(Retry)

----------------------------------------------------------------------------
(* Clone and sanitize on their own: clones made from one cached asset *)

SanInit ==
  /\ sanVariant \in Variants
  /\ sanScene \in SanAssets
  /\ sanOut = <<>>
  /\ sanNext = FirstFreshId
  /\ variant = sanVariant
  /\ cache = PreloadedCache(variant)
  /\ loadStarts = [path \in DOMAIN cache |-> IF cache[path].status = "pending" THEN 1 ELSE 0]
  /\ mounted = "no"
  /\ id = "unlisted_id"
  /\ rotate = TRUE
  /\ loadError = FALSE
  /\ hasError = FALSE
  /\ glb = "none"
  /\ inst = <<>>
  /\ nextId = FirstFreshId
  /\ yaw = 0
  /\ elapsed = 0
  /\ rotT = 0
  /\ updates = 0
  /\ calls = <<>>
  /\ escaped = FALSE
  /\ renderThrew = FALSE
  /\ pendingAtMount = FALSE

\* One more preview of the same id runs its useMemo callback on the cached scene.
SanApply ==
  /\ Len(sanOut) < MaxClones
  /\ LET r == CloneAndSanitize(sanVariant, sanScene, sanNext) IN
       /\ sanOut' = Append(sanOut, [threw |-> r.threw, nodes |-> r.nodes])
       /\ sanNext' = r.next
  /\ UNCHANGED <<sanVariant, sanScene, previewVars>>

SanNextStep == SanApply

SanSpec == SanInit /\ [][SanNextStep]_vars

----------------------------------------------------------------------------
(* The wrapper's states *)

Mapped == id \in DOMAIN GLBMap(variant)

\* FAILED: the boundary has caught, or the load-error flag is set, or the id is unmapped.
Failed == mounted = "yes" /\ (hasError \/ loadError \/ ~Mapped)

Ready == Display = "instance"

Loading == Display = "fallback" /\ glb = "suspended"

\* Clone and the material rewrite both succeed on the asset loaded for the id.
CloneAndSanitizeSucceed ==
  /\ cache[PathOf(variant, id)].status = "resolved"
  /\ ~CloneAndSanitize(variant, LoadedAssets[cache[PathOf(variant, id)].asset], 0).threw

----------------------------------------------------------------------------
(* Claims *)

\* C1: a mounted preview always displays either the sanitized DisplayInstance
\* or the Fallback placeholder, never nothing, after every stage outcome.
C1_AssetOrFallback == mounted = "yes" => Display \in {"instance", "fallback"}

\* C2: a preview of a mapped id mounted while its load is outstanding does not
\* end in FAILED once the load has resolved and clone and sanitize succeed: it
\* is still LOADING (its re-render is due) or READY.
C2_ResolvedLoadNotFailed ==
  (/\ mounted = "yes"
   /\ Mapped
   /\ pendingAtMount
   /\ updates = 0
   /\ ~renderThrew
   /\ CloneAndSanitizeSucceed)
  => (~Failed /\ (Loading \/ Ready))

\* C3: for a mapped id whose load rejected the preview shows the Fallback, is
\* FAILED as soon as it has been rendered against the rejection, nothing has
\* left the wrappers, and the load was started once only.
C3_RejectedLoadContained ==
  (/\ mounted = "yes"
   /\ Mapped
   /\ cache[PathOf(variant, id)].status = "rejected")
  => /\ Display = "fallback"
     /\ glb # "suspended" => Failed
     /\ ~escaped
     /\ loadStarts[PathOf(variant, id)] = 1

C3_Witness ==
  /\ mounted = "yes"
  /\ Mapped
  /\ cache[PathOf(variant, id)].status = "rejected"
  /\ hasError
  /\ pendingAtMount
  /\ Len(calls) = 2

\* C4: for an id that is no entry of the table the preview shows the Fallback
\* and useGLTF is never invoked; every invocation is for an entry of the
\* table, with its configured path.
C4_UnmappedNeverLoads ==
  /\ (mounted = "yes" /\ ~Mapped) => (Display = "fallback" /\ calls = <<>>)
  /\ \A k \in 1..Len(calls) :
       /\ calls[k][1] \in DOMAIN GLBMap(variant)
       /\ calls[k][2] = GLBMap(variant)[calls[k][1]]

\* C5 (as stated): FAILED is terminal: from a FAILED preview (boundary error,
\* load-error flag or unmapped id) no step, a prop update included, makes it
\* display the loaded instance.
C5_FailedIsTerminal == [][Failed => Display' # "instance"]_vars

\* C5 (amended): FAILED is terminal while the id prop stays the same: the
\* preview stays FAILED until it unmounts, never displays the loaded instance
\* and starts no load; the load-error flag survives id changes as well.
C5_FailedIsTerminalForSameId ==
  [][/\ (Failed /\ id' = id) =>
          /\ mounted' = "yes" => Failed'
          /\ Display' # "instance"
          /\ loadStarts' = loadStarts
     /\ (loadError /\ mounted' = "yes") => (loadError' /\ Display' = "fallback")]_vars

C5_Witness ==
  /\ Failed
  /\ loadError
  /\ Mapped
  /\ updates > 0
  /\ CloneAndSanitizeSucceed
  /\ Display = "fallback"

\* C9: the yaw is the class's rate times the time elapsed in frames run with
\* rotation enabled, whatever the frames' sizes and the preview's state; the
\* frames run with rotation disabled add nothing.
C9_YawIsRateTimesTime ==
  mounted = "yes" => (yaw = Rate(variant) * rotT /\ rotT <= elapsed)

C9_Witness ==
  /\ mounted = "yes"
  /\ ~IsCharacter(variant)
  /\ hasError
  /\ rotT = 2
  /\ elapsed = 3
  /\ yaw = 10

----------------------------------------------------------------------------
(* Claims about clone and sanitize *)

InUnitRange(x) == x.t = "num" /\ 0 <= x.v /\ x.v <= DefaultOpacity

\* A descriptor built by the rewrite: a new object of the whitelisted type.
Rewritten(m) == m.kind = "obj" /\ m.type = "MeshStandardMaterial" /\ m.id >= FirstFreshId

\* The clones whose clone and sanitize both completed.
Completed == {k \in 1..Len(sanOut) : ~sanOut[k].threw}

\* The surfaces whose rewrite throws part-way: a material read that throws,
\* and in the safe variants a color without a clone method.
RewriteFails(v, node) ==
  \/ node.getterThrows
  \/ ~node.isArray /\ node.mats[1].kind = "throws"
  \/ IsSafe(v) /\ ~node.isArray /\ node.mats[1].kind = "obj" /\ node.mats[1].color = "string"

\* C6: after clone and sanitize every surface's material has roughness,
\* metalness and opacity within [0,1], whatever the source descriptor held.
C6_FieldsWithinUnitRange ==
  \A k \in Completed :
    \A i \in 1..Len(sanOut[k].nodes) :
      sanOut[k].nodes[i].isMesh =>
        \A j \in 1..Len(sanOut[k].nodes[i].mats) :
          LET m == sanOut[k].nodes[i].mats[j] IN
          m.kind # "null" =>
            /\ InUnitRange(m.roughness)
            /\ InUnitRange(m.metalness)
            /\ InUnitRange(m.opacity)

\* C7: a surface whose material is an array of length N keeps an array of
\* length N, every element a freshly built whitelisted descriptor.
C7_ArrayLengthPreserved ==
  \A k \in Completed :
    \A i \in 1..Len(sanScene.nodes) :
      (sanScene.nodes[i].isMesh /\ sanScene.nodes[i].isArray) =>
        /\ sanOut[k].nodes[i].isArray
        /\ Len(sanOut[k].nodes[i].mats) = Len(sanScene.nodes[i].mats)
        /\ \A j \in 1..Len(sanOut[k].nodes[i].mats) : Rewritten(sanOut[k].nodes[i].mats[j])

\* C8: two instances made from the same cached asset share no material object
\* with each other or with the cached asset after sanitize.
C8_NoSharedMaterial ==
  \A k \in Completed :
    /\ MaterialIds(sanOut[k].nodes) \cap MaterialIds(sanScene.nodes) = {}
    /\ \A m \in Completed :
         m # k => MaterialIds(sanOut[k].nodes) \cap MaterialIds(sanOut[m].nodes) = {}

\* C10: sanitize of a cloned graph does not throw; a surface whose rewrite
\* fails gets the gray default and every other surface that had a material
\* still ends with rewritten descriptors.
C10_FailureStaysLocal ==
  \A k \in 1..Len(sanOut) :
    ~sanScene.corrupt =>
      /\ ~sanOut[k].threw
      /\ \A i \in 1..Len(sanScene.nodes) :
           (sanScene.nodes[i].isMesh /\ HasMaterial(sanScene.nodes[i])) =>
             /\ \A j \in 1..Len(sanOut[k].nodes[i].mats) : Rewritten(sanOut[k].nodes[i].mats[j])
             /\ RewriteFails(sanVariant, sanScene.nodes[i]) => sanOut[k].nodes[i].mats[1].color = "gray"

----------------------------------------------------------------------------
(* Claims about what is presented *)

\* The instance handed to <primitive> is the clone of the asset loaded for
\* the id, with the material rewrite run to its end over that clone.
PresentedAfterCloneAndSanitize ==
  /\ cache[PathOf(variant, id)].status = "resolved"
  /\ LET asset == LoadedAssets[cache[PathOf(variant, id)].asset] IN
     /\ ~CloneScene(asset).threw
     /\ Len(inst) = Len(asset.nodes)
     /\ \E first \in FirstFreshId..nextId :
          /\ ~Traverse(variant, CloneScene(asset).nodes, first).threw
          /\ inst = Traverse(variant, CloneScene(asset).nodes, first).nodes

\* C11: an instance is presented only after its clone and then its sanitize
\* have completed, and no presented instance carries an un-rewritten source
\* material on any node that has a material.
C11_PresentedIsSanitized ==
  Display = "instance" =>
    /\ PresentedAfterCloneAndSanitize
    /\ \A i \in 1..Len(inst) :
         \A j \in 1..Len(inst[i].mats) :
           inst[i].mats[j].kind # "null" => Rewritten(inst[i].mats[j])

====
